---- MODULE Spec2Model ----
(***************************************************************************)
(* rofi-rbw (src/src/rofi_rbw/rofi_rbw.py): the RofiRbw object, its        *)
(* constructor, main() and the methods main() is built from.               *)
(*                                                                         *)
(* Python strings are sequences of one-character strings, so that strip,   *)
(* split, rsplit, replace, startswith, join and sorted are computed the    *)
(* way Python computes them.                                               *)
(*                                                                         *)
(* Spec       is the program: main() of line 186, RofiRbw().main().        *)
(* MethodSpec is the constructed object with its methods called by a       *)
(*            caller that passes the arguments their signatures declare.   *)
(***************************************************************************)
EXTENDS Integers, Sequences, FiniteSets, TLC

VARIABLES pc, action, configured, selector, typer, clipboarder, active_window,
          vault, entries, returncode, entry, selected_folder, selected_entry,
          stdout, data, log, exit_status, error

vars == <<pc, action, configured, selector, typer, clipboarder, active_window,
          vault, entries, returncode, entry, selected_folder, selected_entry,
          stdout, data, log, exit_status, error>>

(***************************************************************************)
(* Bounds                                                                  *)
(***************************************************************************)
MaxRecords == 2
MaxLines == 2

(***************************************************************************)
(* Strings                                                                 *)
(***************************************************************************)
TAB == "\t"
NL == "\n"
SP == " "
SLASH == "/"
Empty == <<>>

Ord(c) ==
    CASE c = TAB -> 9
      [] c = NL -> 10
      [] c = SP -> 32
      [] c = "-" -> 45
      [] c = "/" -> 47
      [] c = ":" -> 58
      [] c = "U" -> 85
      [] c = "W" -> 87
      [] c = "a" -> 97
      [] c = "b" -> 98
      [] c = "e" -> 101
      [] c = "f" -> 102
      [] c = "g" -> 103
      [] c = "d" -> 100
      [] c = "l" -> 108
      [] c = "m" -> 109
      [] c = "n" -> 110
      [] c = "o" -> 111
      [] c = "p" -> 112
      [] c = "r" -> 114
      [] c = "s" -> 115
      [] c = "t" -> 116
      [] c = "u" -> 117
      [] c = "w" -> 119
      [] c = "x" -> 120

IsSpace(c) == c \in {SP, TAB, NL}

RECURSIVE lstrip(_)
lstrip(s) == IF s # <<>> /\ IsSpace(Head(s)) THEN lstrip(Tail(s)) ELSE s

RECURSIVE rstrip(_)
rstrip(s) ==
    IF s # <<>> /\ IsSpace(s[Len(s)]) THEN rstrip(SubSeq(s, 1, Len(s) - 1)) ELSE s

strip(s) == rstrip(lstrip(s))

startswith(s, prefix) ==
    /\ Len(s) >= Len(prefix)
    /\ SubSeq(s, 1, Len(prefix)) = prefix

RECURSIVE replace(_, _, _)
replace(s, old, new) ==
    IF Len(s) < Len(old) THEN s
    ELSE IF startswith(s, old)
         THEN new \o replace(SubSeq(s, Len(old) + 1, Len(s)), old, new)
         ELSE <<Head(s)>> \o replace(Tail(s), old, new)

RECURSIVE split(_, _)
split(s, sep) ==
    IF \E i \in 1..Len(s) : s[i] = sep
    THEN LET i == CHOOSE k \in 1..Len(s) :
                      s[k] = sep /\ \A j \in 1..(k - 1) : s[j] # sep
         IN <<SubSeq(s, 1, i - 1)>> \o split(SubSeq(s, i + 1, Len(s)), sep)
    ELSE <<s>>

rsplit1(s, sep) ==
    IF \E i \in 1..Len(s) : s[i] = sep
    THEN LET i == CHOOSE k \in 1..Len(s) :
                      s[k] = sep /\ \A j \in (k + 1)..Len(s) : s[j] # sep
         IN <<SubSeq(s, 1, i - 1), SubSeq(s, i + 1, Len(s))>>
    ELSE <<s>>

RECURSIVE join(_, _)
join(sep, parts) ==
    IF parts = <<>> THEN <<>>
    ELSE IF Len(parts) = 1 THEN parts[1]
    ELSE parts[1] \o <<sep>> \o join(sep, Tail(parts))

RECURSIVE StrLess(_, _)
StrLess(s, t) ==
    IF t = <<>> THEN FALSE
    ELSE IF s = <<>> THEN TRUE
    ELSE IF Ord(Head(s)) # Ord(Head(t)) THEN Ord(Head(s)) < Ord(Head(t))
    ELSE StrLess(Tail(s), Tail(t))

RECURSIVE Insert(_, _)
Insert(x, ss) ==
    IF ss = <<>> THEN <<x>>
    ELSE IF StrLess(x, Head(ss)) THEN <<x>> \o ss
    ELSE <<Head(ss)>> \o Insert(x, Tail(ss))

RECURSIVE sorted(_)
sorted(ss) == IF ss = <<>> THEN <<>> ELSE Insert(ss[Len(ss)], sorted(SubSeq(ss, 1, Len(ss) - 1)))


(***************************************************************************)
(* Literals of the program                                                 *)
(***************************************************************************)
S_rbw == <<"r", "b", "w">>
S_ls == <<"l", "s">>
S_get == <<"g", "e", "t">>
S_fields == <<"-", "-", "f", "i", "e", "l", "d", "s">>
S_name_user == <<"n", "a", "m", "e", ",", "u", "s", "e", "r">>
S_full == <<"-", "-", "f", "u", "l", "l">>
S_folder == <<"-", "-", "f", "o", "l", "d", "e", "r">>
S_UsernameColon == <<"U", "s", "e", "r", "n", "a", "m", "e", ":">>
S_UsernameColonSpace == <<"U", "s", "e", "r", "n", "a", "m", "e", ":", " ">>

TYPE_PASSWORD == "type-password"
TYPE_USERNAME == "type-username"
TYPE_BOTH == "autotype"
COPY_USERNAME == "copy-username"
COPY_PASSWORD == "copy-password"
Action == {TYPE_PASSWORD, TYPE_USERNAME, TYPE_BOTH, COPY_USERNAME, COPY_PASSWORD}

SelectorChoices == <<"rofi", "wofi">>
ClipboarderChoices == <<"xsel", "xclip", "wl-copy">>
TyperChoices == <<"xdotool", "wtype">>

Range(f) == {f[i] : i \in DOMAIN f}

(***************************************************************************)
(* The environment: what the external programs can answer                  *)
(***************************************************************************)
Windows == {"w1", "w2"}
ReturnCodes == {0, 1, 2, 10, 11, 12, 20, 21, 99}
Names == {<<"a">>, <<"W", "/", "a">>}
Users == {<<>>, <<"b">>}
Records == [name : Names, user : Users]
Vaults == UNION {[1..n -> Records] : n \in 0..MaxRecords}

RECURSIVE LsOutput(_)
LsOutput(v) ==
    IF v = <<>> THEN <<>>
    ELSE Head(v).name \o <<TAB>> \o Head(v).user \o <<NL>> \o LsOutput(Tail(v))

GetNames == {<<"b">>, <<>>}
GetFolders == {<<>>, <<"W">>}
GetLines == { <<" ", "p", "w">>,
              S_UsernameColonSpace \o <<"b">>,
              S_UsernameColonSpace \o <<"a">> \o S_UsernameColonSpace \o <<"b">>,
              S_UsernameColon \o <<"b">>,
              <<"x">> }
RECURSIVE Lines2Text(_)
Lines2Text(ls) == IF ls = <<>> THEN <<>> ELSE Head(ls) \o <<NL>> \o Lines2Text(Tail(ls))
GetOutputs == {Lines2Text(ls) : ls \in UNION {[1..n -> GetLines] : n \in 0..MaxLines}}

(***************************************************************************)
(* Calls to external programs, as recorded in log                          *)
(***************************************************************************)
Call(op, argv, window, rc) == [op |-> op, argv |-> argv, window |-> window, rc |-> rc]

(***************************************************************************)
(* Backend probe (rofi_rbw.selector / typer / clipboarder)                 *)
(***************************************************************************)
best_option(name, candidates, available) ==
    IF name # "None"
    THEN IF name \in Range(candidates) /\ name \in available THEN name ELSE "FAIL"
    ELSE IF \E i \in DOMAIN candidates : candidates[i] \in available
         THEN candidates[CHOOSE i \in DOMAIN candidates :
                            /\ candidates[i] \in available
                            /\ \A j \in 1..(i - 1) : candidates[j] \notin available]
         ELSE "FAIL"

(***************************************************************************)
(* Pure parts of RofiRbw                                                   *)
(***************************************************************************)
list_command == <<S_rbw, S_ls, S_fields, S_name_user>>

display_entries(out) ==
    LET raw == split(strip(out), NL)
        tab2slash(it) == replace(it, <<TAB>>, <<SLASH>>)
    IN sorted([i \in 1..Len(raw) |-> tab2slash(raw[i])])

\* choose_action_from_return_code with the two copy codes exchanged
choose_action_copy_codes_swapped(return_code, current) ==
    IF return_code = 1 THEN [exit |-> TRUE, action |-> current]
    ELSE IF return_code = 12 THEN [exit |-> FALSE, action |-> TYPE_PASSWORD]
    ELSE IF return_code = 11 THEN [exit |-> FALSE, action |-> TYPE_USERNAME]
    ELSE IF return_code = 10 THEN [exit |-> FALSE, action |-> TYPE_BOTH]
    ELSE IF return_code = 20 THEN [exit |-> FALSE, action |-> COPY_USERNAME]
    ELSE IF return_code = 21 THEN [exit |-> FALSE, action |-> COPY_PASSWORD]
    ELSE [exit |-> FALSE, action |-> current]

\* choose_action_from_return_code without the sys.exit() branch
choose_action_no_exit(return_code, current) ==
    IF return_code = 12 THEN [exit |-> FALSE, action |-> TYPE_PASSWORD]
    ELSE IF return_code = 11 THEN [exit |-> FALSE, action |-> TYPE_USERNAME]
    ELSE IF return_code = 10 THEN [exit |-> FALSE, action |-> TYPE_BOTH]
    ELSE IF return_code = 20 THEN [exit |-> FALSE, action |-> COPY_PASSWORD]
    ELSE IF return_code = 21 THEN [exit |-> FALSE, action |-> COPY_USERNAME]
    ELSE [exit |-> FALSE, action |-> current]

choose_action_from_return_code(return_code, current) ==
    IF return_code = 1 THEN [exit |-> TRUE, action |-> current]
    ELSE IF return_code = 12 THEN [exit |-> FALSE, action |-> TYPE_PASSWORD]
    ELSE IF return_code = 11 THEN [exit |-> FALSE, action |-> TYPE_USERNAME]
    ELSE IF return_code = 10 THEN [exit |-> FALSE, action |-> TYPE_BOTH]
    ELSE IF return_code = 20 THEN [exit |-> FALSE, action |-> COPY_PASSWORD]
    ELSE IF return_code = 21 THEN [exit |-> FALSE, action |-> COPY_USERNAME]
    ELSE [exit |-> FALSE, action |-> current]

\* execute_action with the copy branches handing over the other field
execute_action_copy_fields_swapped(act, d, window) ==
    IF act = TYPE_PASSWORD THEN <<Call("type", <<d.password>>, window, 0)>>
    ELSE IF act = TYPE_USERNAME THEN <<Call("type", <<d.username>>, window, 0)>>
    ELSE IF act = TYPE_BOTH
         THEN <<Call("type", <<d.username \o <<TAB>> \o d.password>>, window, 0)>>
    ELSE IF act = COPY_PASSWORD THEN <<Call("copy", <<d.username>>, "None", 0)>>
    ELSE IF act = COPY_USERNAME THEN <<Call("copy", <<d.password>>, "None", 0)>>
    ELSE <<>>

\* execute_action typing into whichever window has the focus at delivery time
execute_action_focused_window(act, d, window) ==
    LET focused == CHOOSE w \in Windows : w # window
    IN IF act = TYPE_PASSWORD THEN <<Call("type", <<d.password>>, focused, 0)>>
       ELSE IF act = TYPE_USERNAME THEN <<Call("type", <<d.username>>, focused, 0)>>
       ELSE IF act = TYPE_BOTH
            THEN <<Call("type", <<d.username \o <<TAB>> \o d.password>>, focused, 0)>>
       ELSE IF act = COPY_PASSWORD THEN <<Call("copy", <<d.password>>, "None", 0)>>
       ELSE IF act = COPY_USERNAME THEN <<Call("copy", <<d.username>>, "None", 0)>>
       ELSE <<>>

execute_action(act, d, window) ==
    IF act = TYPE_PASSWORD THEN <<Call("type", <<d.password>>, window, 0)>>
    ELSE IF act = TYPE_USERNAME THEN <<Call("type", <<d.username>>, window, 0)>>
    ELSE IF act = TYPE_BOTH
         THEN <<Call("type", <<d.username \o <<TAB>> \o d.password>>, window, 0)>>
    ELSE IF act = COPY_PASSWORD THEN <<Call("copy", <<d.password>>, "None", 0)>>
    ELSE IF act = COPY_USERNAME THEN <<Call("copy", <<d.username>>, "None", 0)>>
    ELSE <<>>

get_command(name, folder) ==
    LET command == <<S_rbw, S_get, S_full, name>>
    IN IF folder # Empty THEN command \o <<S_folder, folder>> ELSE command

RECURSIVE extract_username(_)
extract_username(result) ==
    IF result = <<>> THEN Empty
    ELSE IF startswith(Head(result), S_UsernameColon)
         THEN replace(Head(result), S_UsernameColonSpace, Empty)
         ELSE extract_username(Tail(result))

get_data(out) ==
    LET result == split(out, NL)
        password == strip(result[1])
        username == extract_username(result)
    IN [username |-> username, password |-> password]


(***************************************************************************)
(* State after nothing has run yet                                         *)
(***************************************************************************)
NoData == <<>>

Init ==
    /\ pc = "start"
    /\ action = "None"
    /\ configured = "None"
    /\ selector = "None"
    /\ typer = "None"
    /\ clipboarder = "None"
    /\ active_window = "None"
    /\ vault = <<>>
    /\ entries = <<>>
    /\ returncode = -1
    /\ entry = Empty
    /\ selected_folder = Empty
    /\ selected_entry = Empty
    /\ stdout = Empty
    /\ data = NoData
    /\ log = <<>>
    /\ exit_status = -1
    /\ error = "None"

Raise(exc) ==
    /\ pc' = "crashed"
    /\ exit_status' = 1
    /\ error' = exc

SysExit ==
    /\ pc' = "exited"
    /\ exit_status' = 0
    /\ error' = "SystemExit"

Goto(label) ==
    /\ pc' = label
    /\ UNCHANGED <<exit_status, error>>

(***************************************************************************)
(* RofiRbw.__init__                                                        *)
(***************************************************************************)
ParseArguments ==
    /\ pc = "start"
    /\ \E a \in Action :
          /\ action' = a
          /\ configured' = a
    /\ Goto("selector")
    /\ UNCHANGED <<selector, typer, clipboarder, active_window, vault, entries,
                   returncode, entry, selected_folder, selected_entry, stdout,
                   data, log>>

ProbeSelector ==
    /\ pc = "selector"
    /\ \E name \in Range(SelectorChoices) \cup {"None"},
          available \in SUBSET Range(SelectorChoices) :
          LET b == best_option(name, SelectorChoices, available)
          IN IF b = "FAIL"
             THEN Raise("NoBackend") /\ UNCHANGED selector
             ELSE Goto("typer") /\ selector' = b
    /\ UNCHANGED <<action, configured, typer, clipboarder, active_window, vault,
                   entries, returncode, entry, selected_folder, selected_entry,
                   stdout, data, log>>

\* ProbeTyper with the probe's failure swallowed instead of propagated
ProbeTyper_failure_swallowed ==
    /\ pc = "typer"
    /\ \E name \in Range(TyperChoices) \cup {"None"},
          available \in SUBSET Range(TyperChoices) :
          LET b == best_option(name, TyperChoices, available)
          IN IF b = "FAIL"
             THEN Goto("clipboarder") /\ UNCHANGED typer
             ELSE Goto("clipboarder") /\ typer' = b
    /\ UNCHANGED <<action, configured, selector, clipboarder, active_window,
                   vault, entries, returncode, entry, selected_folder,
                   selected_entry, stdout, data, log>>

ProbeTyper ==
    /\ pc = "typer"
    /\ \E name \in Range(TyperChoices) \cup {"None"},
          available \in SUBSET Range(TyperChoices) :
          LET b == best_option(name, TyperChoices, available)
          IN IF b = "FAIL"
             THEN Raise("NoBackend") /\ UNCHANGED typer
             ELSE Goto("clipboarder") /\ typer' = b
    /\ UNCHANGED <<action, configured, selector, clipboarder, active_window,
                   vault, entries, returncode, entry, selected_folder,
                   selected_entry, stdout, data, log>>

ProbeClipboarder ==
    /\ pc = "clipboarder"
    /\ \E name \in Range(ClipboarderChoices) \cup {"None"},
          available \in SUBSET Range(ClipboarderChoices) :
          LET b == best_option(name, ClipboarderChoices, available)
          IN IF b = "FAIL"
             THEN Raise("NoBackend") /\ UNCHANGED clipboarder
             ELSE Goto("window") /\ clipboarder' = b
    /\ UNCHANGED <<action, configured, selector, typer, active_window, vault,
                   entries, returncode, entry, selected_folder, selected_entry,
                   stdout, data, log>>

GetActiveWindow ==
    /\ pc = "window"
    /\ \E w \in Windows :
          /\ active_window' = w
          /\ log' = Append(log, Call("get_active_window", <<>>, w, 0))
    /\ Goto("constructed")
    /\ UNCHANGED <<action, configured, selector, typer, clipboarder, vault,
                   entries, returncode, entry, selected_folder, selected_entry,
                   stdout, data>>

(***************************************************************************)
(* main() and RofiRbw.main                                                 *)
(***************************************************************************)
CallMain ==
    /\ pc = "constructed"
    /\ Goto("list")
    /\ UNCHANGED <<action, configured, selector, typer, clipboarder,
                   active_window, vault, entries, returncode, entry,
                   selected_folder, selected_entry, stdout, data, log>>

ListEntries ==
    /\ pc = "list"
    /\ \/ \E v \in Vaults, rc \in {0, 1} :
             \E out \in (IF rc = 0 THEN {LsOutput(v)} ELSE {Empty, LsOutput(v)}) :
                /\ vault' = v
                /\ entries' = display_entries(out)
                /\ log' = Append(log, Call("ls", list_command, "None", rc))
                /\ Goto("select")
       \/ /\ Raise("OSError")
          /\ UNCHANGED <<vault, entries, log>>
    /\ UNCHANGED <<action, configured, selector, typer, clipboarder,
                   active_window, returncode, entry, selected_folder,
                   selected_entry, stdout, data>>

ShowSelection ==
    /\ pc = "select"
    /\ \E code \in ReturnCodes, line \in Range(entries) \cup {Empty},
          suffix \in {Empty, <<NL>>} :
          /\ returncode' = code
          /\ entry' = line \o suffix
          /\ log' = Append(log, Call("select", <<join(NL, entries)>>, "None", code))
    /\ Goto("choose")
    /\ UNCHANGED <<action, configured, selector, typer, clipboarder,
                   active_window, vault, entries, selected_folder,
                   selected_entry, stdout, data>>

ChooseAction ==
    /\ pc = "choose"
    /\ LET r == choose_action_from_return_code(returncode, action)
       IN IF r.exit
          THEN SysExit /\ UNCHANGED action
          ELSE Goto("split") /\ action' = r.action
    /\ UNCHANGED <<configured, selector, typer, clipboarder, active_window,
                   vault, entries, returncode, entry, selected_folder,
                   selected_entry, stdout, data, log>>

SplitEntry ==
    /\ pc = "split"
    /\ LET parts == rsplit1(entry, SLASH)
       IN IF Len(parts) = 2
          THEN /\ selected_folder' = parts[1]
               /\ selected_entry' = parts[2]
               /\ Goto("fetch")
          ELSE /\ Raise("ValueError")
               /\ UNCHANGED <<selected_folder, selected_entry>>
    /\ UNCHANGED <<action, configured, selector, typer, clipboarder,
                   active_window, vault, entries, returncode, entry, stdout,
                   data, log>>

\* line 133: self.get_data(selected_entry.strip()) binds name only; get_data
\* declares (self, name, folder), so the call raises TypeError before its body.
CallGetData ==
    /\ pc = "fetch"
    /\ Raise("TypeError")
    /\ UNCHANGED <<action, configured, selector, typer, clipboarder,
                   active_window, vault, entries, returncode, entry,
                   selected_folder, selected_entry, stdout, data, log>>

Next ==
    \/ ParseArguments
    \/ ProbeSelector
    \/ ProbeTyper
    \/ ProbeClipboarder
    \/ GetActiveWindow
    \/ CallMain
    \/ ListEntries
    \/ ShowSelection
    \/ ChooseAction
    \/ SplitEntry
    \/ CallGetData

Spec == Init /\ [][Next]_vars

(***************************************************************************)
(* The methods called on a constructed object                              *)
(***************************************************************************)
MethodChooseAction ==
    /\ pc = "constructed"
    /\ \E code \in ReturnCodes :
          /\ returncode' = code
          /\ LET r == choose_action_from_return_code(code, action)
             IN IF r.exit
                THEN SysExit /\ UNCHANGED action
                ELSE Goto("m_chosen") /\ action' = r.action
    /\ UNCHANGED <<configured, selector, typer, clipboarder, active_window,
                   vault, entries, entry, selected_folder, selected_entry,
                   stdout, data, log>>

MethodGetData ==
    /\ pc \in {"constructed", "m_chosen"}
    /\ \E name \in GetNames, folder \in GetFolders :
          /\ selected_entry' = name
          /\ selected_folder' = folder
          /\ \/ \E rc \in {0, 1} :
                   \E out \in (IF rc = 0 THEN GetOutputs ELSE {Empty}) :
                      /\ stdout' = out
                      /\ data' = <<get_data(out)>>
                      /\ log' = Append(log, Call("get", get_command(name, folder), "None", rc))
                      /\ Goto("m_fetched")
             \/ /\ Raise("OSError")
                /\ UNCHANGED <<stdout, data, log>>
    /\ UNCHANGED <<action, configured, selector, typer, clipboarder,
                   active_window, vault, entries, returncode, entry>>

MethodExecuteAction ==
    /\ pc = "m_fetched"
    /\ log' = log \o execute_action(action, data[1], active_window)
    /\ Goto("m_executed")
    /\ UNCHANGED <<action, configured, selector, typer, clipboarder,
                   active_window, vault, entries, returncode, entry,
                   selected_folder, selected_entry, stdout, data>>

MethodNext ==
    \/ Next
    \/ MethodChooseAction
    \/ MethodGetData
    \/ MethodExecuteAction

MethodSpec == Init /\ [][MethodNext]_vars

(***************************************************************************)
(* Vocabulary of the properties                                            *)
(***************************************************************************)
IsDelivery(e) == e.op \in {"type", "copy"}
Deliveries == SelectSeq(log, IsDelivery)
Events(op) == {i \in DOMAIN log : log[i].op = op}
Terminated == pc \in {"exited", "crashed"}
AllBound == selector # "None" /\ typer # "None" /\ clipboarder # "None"
Display(r) == r.name \o <<SLASH>> \o r.user
ListingSucceeded == \E i \in Events("ls") : log[i].rc = 0
Selected == Events("select") # {}

TypeOK ==
    /\ action \in Action \cup {"None"}
    /\ configured \in Action \cup {"None"}
    /\ selector \in Range(SelectorChoices) \cup {"None"}
    /\ typer \in Range(TyperChoices) \cup {"None"}
    /\ clipboarder \in Range(ClipboarderChoices) \cup {"None"}
    /\ active_window \in Windows \cup {"None"}
    /\ returncode \in ReturnCodes \cup {-1}
    /\ exit_status \in {-1, 0, 1}
    /\ Len(data) <= 1

(***************************************************************************)
(* C1: after choose_action_from_return_code has returned, the action is    *)
(* the one the exit-code table names: 10 type-both, 11 type-username,      *)
(* 12 type-password, 20 copy-password, 21 copy-username; for every other   *)
(* code but 1 it is the configured default, whatever that default is.      *)
(***************************************************************************)
C1_Table(code, default) ==
    CASE code = 10 -> TYPE_BOTH
      [] code = 11 -> TYPE_USERNAME
      [] code = 12 -> TYPE_PASSWORD
      [] code = 20 -> COPY_PASSWORD
      [] code = 21 -> COPY_USERNAME
      [] OTHER -> default

C1_ExitCodeTable ==
    (pc \in {"split", "fetch"} /\ returncode # 1) => action = C1_Table(returncode, configured)

C1_Witness ==
    /\ pc = "split"
    /\ returncode = 21
    /\ configured = TYPE_PASSWORD
    /\ action = COPY_USERNAME

(***************************************************************************)
(* C2: once the selector has returned exit code 1 the run does nothing     *)
(* but exit: it is either about to resolve the code or has exited with     *)
(* status 0, and no store get, typer or clipboarder call follows the       *)
(* selector call.                                                          *)
(***************************************************************************)
C2_CancelExitsCleanly ==
    \A i \in Events("select") :
        log[i].rc = 1 =>
            /\ pc \in {"choose", "exited"}
            /\ pc = "exited" => exit_status = 0 /\ error = "SystemExit"
            /\ \A j \in DOMAIN log : j > i => log[j].op \notin {"get", "type", "copy"}

C2_Witness ==
    /\ pc = "exited"
    /\ exit_status = 0
    /\ \E i \in Events("select") : log[i].rc = 1

(***************************************************************************)
(* C3: a run that probed its three backends, listed the store              *)
(* successfully and got a listed entry back from the selector with an      *)
(* exit code other than 1 has, when it ends, fetched the credential and    *)
(* made exactly one delivery.                                              *)
(***************************************************************************)
C3_RunFetchesAndDelivers ==
    ( /\ Terminated
      /\ AllBound
      /\ ListingSucceeded
      /\ Selected
      /\ returncode # 1
      /\ \E r \in Range(vault) : strip(entry) = Display(r) )
    => /\ Events("get") # {}
       /\ Len(Deliveries) = 1

(***************************************************************************)
(* C4: no typer or clipboarder call follows a store get command that       *)
(* failed (non-zero exit or empty output).                                 *)
(***************************************************************************)
C4_NoDeliveryAfterFailedFetch ==
    \A i \in Events("get") :
        (log[i].rc # 0 \/ stdout = Empty) =>
            \A j \in DOMAIN log : j > i => ~IsDelivery(log[j])

(***************************************************************************)
(* C5: the store and the selector are invoked only after all three         *)
(* backends have been bound; a run whose probing failed has made no such   *)
(* call and ends with a non-zero status.                                   *)
(***************************************************************************)
C5_NoCallBeforeBackendsBound ==
    /\ (Events("ls") \cup Events("select") \cup Events("get")) # {} => AllBound
    /\ pc \in {"list", "select", "choose", "split", "fetch"} => AllBound
    /\ error = "NoBackend" =>
          /\ pc = "crashed"
          /\ exit_status # 0
          /\ ~AllBound
          /\ log = <<>>

C5_Witness ==
    /\ error = "NoBackend"
    /\ selector # "None"
    /\ typer = "None"
    /\ pc = "crashed"

(***************************************************************************)
(* C6: no show_selection call follows a store listing command that         *)
(* exited non-zero.                                                        *)
(***************************************************************************)
C6_NoSelectorAfterFailedListing ==
    \A i \in Events("ls") :
        log[i].rc # 0 => \A j \in DOMAIN log : j > i => log[j].op # "select"

(***************************************************************************)
(* C7: execute_action makes exactly one backend call: type-password types  *)
(* the password, type-username the username, type-both the one string      *)
(* username TAB password, each into the captured window; copy-password and *)
(* copy-username hand that field to the clipboarder.                       *)
(***************************************************************************)
C7_Expected ==
    CASE action = TYPE_PASSWORD -> Call("type", <<data[1].password>>, active_window, 0)
      [] action = TYPE_USERNAME -> Call("type", <<data[1].username>>, active_window, 0)
      [] action = TYPE_BOTH ->
             Call("type", <<data[1].username \o <<TAB>> \o data[1].password>>, active_window, 0)
      [] action = COPY_PASSWORD -> Call("copy", <<data[1].password>>, "None", 0)
      [] action = COPY_USERNAME -> Call("copy", <<data[1].username>>, "None", 0)

C7_OneDeliveryPerAction ==
    pc = "m_executed" =>
        /\ Len(Deliveries) = 1
        /\ Deliveries[1] = C7_Expected
        /\ log[Len(log)] = C7_Expected
        /\ action \in {TYPE_PASSWORD, TYPE_USERNAME, TYPE_BOTH} <=> Deliveries[1].op = "type"

C7_Witness ==
    /\ pc = "m_executed"
    /\ action = TYPE_BOTH
    /\ data[1].username = <<"b">>
    /\ data[1].password = <<"p", "w">>
    /\ Deliveries = <<Call("type", <<(<<"b", TAB, "p", "w">>)>>, active_window, 0)>>

(***************************************************************************)
(* C8: the active window is asked for exactly once, in the constructor     *)
(* and so before any selector call, it is never written again, and every   *)
(* typer call gets that handle.                                            *)
(***************************************************************************)
C8_State ==
    /\ Cardinality(Events("get_active_window")) <= 1
    /\ active_window # "None" <=> Events("get_active_window") # {}
    /\ \A i \in Events("get_active_window") :
          /\ log[i].window = active_window
          /\ \A j \in DOMAIN log : j # i => j > i
    /\ \A i \in Events("select") \cup Events("type") : active_window # "None"
    /\ \A i \in Events("type") : log[i].window = active_window

C8_WindowCapturedOnce ==
    /\ []C8_State
    /\ [][active_window # "None" => active_window' = active_window]_vars

C8_Witness ==
    /\ pc = "m_executed"
    /\ \E i \in Events("type") : log[i].window = active_window /\ active_window = "w2"

(***************************************************************************)
(* C9: for a chosen line built from a listed record, the name main passes  *)
(* to get_data is the record's entry name, and the run's get command       *)
(* carries that name and --folder exactly when the folder part of the line *)
(* is non-empty.                                                           *)
(***************************************************************************)
C9_Argv(name, folder) ==
    IF folder = Empty THEN <<S_rbw, S_get, S_full, name>>
    ELSE <<S_rbw, S_get, S_full, name, S_folder, folder>>

C9_GetUsesRecordName ==
    \A r \in Range(vault) :
        (ListingSucceeded /\ Selected /\ returncode # 1 /\ strip(entry) = Display(r)) =>
            /\ pc = "fetch" => strip(selected_entry) = r.name
            /\ Terminated =>
                  \E i \in Events("get") : log[i].argv = C9_Argv(r.name, selected_folder)

(***************************************************************************)
(* C10: the credential get_data returns has the trimmed first line as      *)
(* password and, as username, what follows the fixed prefix 'Username: '   *)
(* in the first line that starts with 'Username:', or the empty string     *)
(* when there is no such line.                                             *)
(***************************************************************************)
RECURSIVE C10_Username(_)
C10_Username(lines) ==
    IF lines = <<>> THEN Empty
    ELSE IF startswith(Head(lines), S_UsernameColon)
         THEN SubSeq(Head(lines), Len(S_UsernameColonSpace) + 1, Len(Head(lines)))
         ELSE C10_Username(Tail(lines))

\* the first 'Username:' line, if any, does carry the whole prefix 'Username: '
RECURSIVE C10_PrefixPresent(_)
C10_PrefixPresent(lines) ==
    IF lines = <<>> THEN TRUE
    ELSE IF startswith(Head(lines), S_UsernameColon)
         THEN startswith(Head(lines), S_UsernameColonSpace)
         ELSE C10_PrefixPresent(Tail(lines))

C10_CredentialParsed ==
    pc = "m_fetched" =>
        /\ data[1].password = strip(split(stdout, NL)[1])
        /\ C10_PrefixPresent(split(stdout, NL)) =>
              data[1].username = C10_Username(split(stdout, NL))

====
